---- MODULE Spec2Model ----
(***************************************************************************)
(* A model of the LLM pipeline: extraction of PRE/POST from a .key proof   *)
(* script, sanitizing of the working copy, synthesis with one fallback     *)
(* model, and the controller that sequences the stages.                    *)
(*                                                                         *)
(* Text is a sequence of tokens.  A token is one character (" ", "\n",     *)
(* "{", "}", ...) or one fixed lexeme that the regular expressions of the  *)
(* source match as a unit (a directive name, a tag such as \pre, the word  *)
(* java).  The regular-expression searches are computed the way Python's   *)
(* backtracking matcher resolves them: leftmost start, greedy and lazy     *)
(* quantifiers in priority order.                                          *)
(***************************************************************************)
EXTENDS Integers, Sequences, FiniteSets, TLC

\* ---------------------------------------------------------------------------
\* Text helpers (Python str / re primitives)
\* ---------------------------------------------------------------------------

\* the result of a search that found nothing (re.search(...) is None): a text
\* that no file and no response holds
NoMatch == <<"NoMatch">>

\* \s of the regular expressions and the characters str.strip() removes
IsSpace(c) == c \in {" ", "\n"}

\* the least position of the set S, 0 when S is empty: where a search or a
\* lazy quantifier stops
First(S) == IF S = {} THEN 0 ELSE CHOOSE i \in S : \A j \in S : i <= j

\* greedy \s* from position k: the first position at or after k that holds no
\* whitespace (Len(s) + 1 when the rest is whitespace)
SkipSpace(s, k) ==
  IF \E i \in k..Len(s) : ~IsSpace(s[i])
  THEN CHOOSE i \in k..Len(s) : ~IsSpace(s[i]) /\ \A j \in k..(i - 1) : IsSpace(s[j])
  ELSE IF k > Len(s) + 1 THEN k ELSE Len(s) + 1

\* the position after the last non-whitespace token of s (0 when all is space)
LastNonSpace(s) ==
  IF \E i \in 1..Len(s) : ~IsSpace(s[i])
  THEN CHOOSE i \in 1..Len(s) : ~IsSpace(s[i]) /\ \A j \in (i + 1)..Len(s) : IsSpace(s[j])
  ELSE 0

\* str.strip()
Strip(s) == SubSeq(s, SkipSpace(s, 1), LastNonSpace(s))

\* str.rstrip()
RStrip(s) == SubSeq(s, 1, LastNonSpace(s))

\* all sequences over S of length at most n
SeqsUpTo(S, n) == UNION {[1..k -> S] : k \in 0..n}

\* ---------------------------------------------------------------------------
\* llm_synthesizer.py: parsing of a model response
\* ---------------------------------------------------------------------------

\* three consecutive backticks (token "tick") start at position i
FenceAt(s, i) == i + 2 <= Len(s) /\ s[i] = "tick" /\ s[i + 1] = "tick" /\ s[i + 2] = "tick"

\* group 1 of the fenced-block search of _parse_java_from_response:
\* the leftmost opening fence, the optional word java, greedy whitespace, then
\* lazily up to the next fence
FencedInterior(content) ==
  LET i == First({n \in 1..Len(content) : FenceAt(content, n)}) IN
  IF i = 0 THEN NoMatch
  ELSE LET p0 == IF i + 3 <= Len(content) /\ content[i + 3] = "java" THEN i + 4 ELSE i + 3
           p  == SkipSpace(content, p0)
           k  == First({n \in p..Len(content) : FenceAt(content, n)})
       IN  IF k = 0 THEN NoMatch ELSE SubSeq(content, p, k - 1)

QuoteAt(s, i) == s[i] = "\""

\* a JSON string literal may hold neither a quote nor a raw control character
IsStringBody(s) == \A i \in 1..Len(s) : s[i] \notin {"\"", "\n"}

\* json.loads(content) on the JSON texts of the model: an object with no member
\* or one member whose value is a string or null; a bare string; null.
\* Anything else raises (kind "invalid").
JsonValue(v) ==
  IF v = <<"null">> THEN [ok |-> TRUE, isstr |-> FALSE, str |-> <<>>]
  ELSE IF Len(v) >= 2 /\ v[1] = "\"" /\ v[Len(v)] = "\"" /\ IsStringBody(SubSeq(v, 2, Len(v) - 1))
       THEN [ok |-> TRUE, isstr |-> TRUE, str |-> SubSeq(v, 2, Len(v) - 1)]
       ELSE [ok |-> FALSE, isstr |-> FALSE, str |-> <<>>]

JsonMember(m) ==
  LET kq == IF Len(m) >= 2 /\ m[1] = "\"" THEN First({n \in 2..Len(m) : QuoteAt(m, n)}) ELSE 0
      c  == SkipSpace(m, kq + 1)
      v  == SubSeq(m, SkipSpace(m, c + 1), Len(m))
  IN  IF kq = 0 \/ ~IsStringBody(SubSeq(m, 2, kq - 1)) \/ c > Len(m) \/ m[c] # ":" \/ ~JsonValue(v).ok
      THEN [ok |-> FALSE, key |-> <<>>, isstr |-> FALSE, str |-> <<>>]
      ELSE [ok |-> TRUE, key |-> SubSeq(m, 2, kq - 1), isstr |-> JsonValue(v).isstr, str |-> JsonValue(v).str]

JsonLoads(content) ==
  LET t     == Strip(content)
      inner == Strip(SubSeq(t, 2, Len(t) - 1))
      none  == [kind |-> "invalid", key |-> <<>>, isstr |-> FALSE, str |-> <<>>]
  IN  IF Len(t) >= 2 /\ t[1] = "{" /\ t[Len(t)] = "}"
      THEN IF inner = <<>> THEN [none EXCEPT !.kind = "dict"]
           ELSE IF JsonMember(inner).ok
                THEN [kind |-> "dict", key |-> JsonMember(inner).key,
                      isstr |-> JsonMember(inner).isstr, str |-> JsonMember(inner).str]
                ELSE none
      ELSE IF t # <<>> /\ JsonValue(t).ok THEN [none EXCEPT !.kind = "nondict"]
           ELSE none

\* (data.get("java") or "").strip() with its exceptions: a body that does not
\* parse, or parses to something that is no object, leaves the try block with
\* no value (NoMatch); so does an empty java
JsonJava(content) ==
  LET data == JsonLoads(content)
      java == IF data.key = <<"java">> /\ data.isstr THEN Strip(data.str) ELSE <<>>
  IN  IF data.kind = "dict" /\ java # <<>> THEN java ELSE NoMatch

\* _parse_java_from_response
ParseJavaFromResponse(content) ==
  IF JsonJava(content) # NoMatch THEN JsonJava(content)
  ELSE IF FencedInterior(content) # NoMatch THEN Strip(FencedInterior(content))
  ELSE Strip(content)

\* ---------------------------------------------------------------------------
\* prepost_extractor.py
\* ---------------------------------------------------------------------------

\* the (?i) flag: a tag or directive matches in any letter case; the model has
\* one upper-case spelling of each tag and directive it needs
Lower(c) ==
  CASE c = "\\PRE" -> "\\pre"
    [] c = "\\POST" -> "\\post"
    [] c = "\\PROBLEM" -> "\\problem"
    [] c = "\\JAVASOURCE" -> "\\javaSource"
    [] OTHER -> c

CloseAt(s, i) == s[i] = "}"

\* tag, \s*, "{" and, lazily, the first "}" after it, starting at position i
BlockAt(s, i, tag) ==
  /\ Lower(s[i]) = tag
  /\ LET b == SkipSpace(s, i + 1) IN
       b <= Len(s) /\ s[b] = "{" /\ First({n \in (b + 1)..Len(s) : CloseAt(s, n)}) # 0

\* group 1 of the block that starts at i
BlockGroup(s, i) ==
  LET b == SkipSpace(s, i + 1) IN SubSeq(s, b + 1, First({n \in (b + 1)..Len(s) : CloseAt(s, n)}) - 1)

PreAt(s, i) == BlockAt(s, i, "\\pre")
PostAt(s, i) == BlockAt(s, i, "\\post")

\* _PRE_RE.search(txt): group 1 of the leftmost match, or NoMatch
PRE_RE(txt) ==
  LET i == First({n \in 1..Len(txt) : PreAt(txt, n)}) IN IF i = 0 THEN NoMatch ELSE BlockGroup(txt, i)

\* _POST_RE.search(txt)
POST_RE(txt) ==
  LET i == First({n \in 1..Len(txt) : PostAt(txt, n)}) IN IF i = 0 THEN NoMatch ELSE BlockGroup(txt, i)

\* _PROBLEM_RE from the \> at position g on: \s*, lazy POST, \s*, "}".
\* The POST group, or NoMatch.
PostFrom(s, g) ==
  LET q == SkipSpace(s, g + 1)
      e == First({n \in q..Len(s) : CloseAt(s, n)})
  IN  IF e = 0 THEN NoMatch ELSE RStrip(SubSeq(s, q, e - 1))

\* the "}" at r ends the program fragment: \s*, the \> and a POST follow
ProgramEndAt(s, r) ==
  /\ s[r] = "}"
  /\ LET g == SkipSpace(s, r + 1) IN
       g <= Len(s) /\ s[g] = "\\>" /\ PostFrom(s, g) # NoMatch

\* the "}" at r ends the update block: \s*, the \<, \s*, "{" and a program
\* fragment follow
UpdateEndAt(s, r) ==
  /\ s[r] = "}"
  /\ LET l == SkipSpace(s, r + 1) IN
       /\ l <= Len(s) /\ s[l] = "\\<"
       /\ LET pb == SkipSpace(s, l + 1) IN
            pb <= Len(s) /\ s[pb] = "{" /\ First({n \in (pb + 1)..Len(s) : ProgramEndAt(s, n)}) # 0

\* the "->" at a, \s*, "{" and the rest of the pattern match
ArrowAt(s, a) ==
  /\ s[a] = "->"
  /\ LET ub == SkipSpace(s, a + 1) IN
       ub <= Len(s) /\ s[ub] = "{" /\ First({n \in (ub + 1)..Len(s) : UpdateEndAt(s, n)}) # 0

\* the POST group of the match whose "->" is at a
ArrowPost(s, a) ==
  LET r1 == First({n \in (SkipSpace(s, a + 1) + 1)..Len(s) : UpdateEndAt(s, n)})
      pb == SkipSpace(s, SkipSpace(s, r1 + 1) + 1)
      r2 == First({n \in (pb + 1)..Len(s) : ProgramEndAt(s, n)})
  IN  PostFrom(s, SkipSpace(s, r2 + 1))

\* \problem, \s*, "{", \s*, the lazy PRE and the rest match, starting at i
ProblemAt(s, i) ==
  /\ Lower(s[i]) = "\\problem"
  /\ LET b == SkipSpace(s, i + 1) IN
       b <= Len(s) /\ s[b] = "{" /\ First({n \in (SkipSpace(s, b + 1))..Len(s) : ArrowAt(s, n)}) # 0

\* _PROBLEM_RE.search(txt): the groups pre and post of the leftmost match
PROBLEM_RE(txt) ==
  LET i == First({n \in 1..Len(txt) : ProblemAt(txt, n)}) IN
  IF i = 0 THEN [pre |-> NoMatch, post |-> NoMatch]
  ELSE LET p == SkipSpace(txt, SkipSpace(txt, i + 1) + 1)
           a == First({n \in p..Len(txt) : ArrowAt(txt, n)})
       IN  [pre |-> RStrip(SubSeq(txt, p, a - 1)), post |-> ArrowPost(txt, a)]

\* the two grammars tried in the other order
extract_problem_form_first(txt) ==
  IF PROBLEM_RE(txt).pre # NoMatch
  THEN [kind |-> "problem", pre |-> Strip(PROBLEM_RE(txt).pre),
        post |-> Strip(PROBLEM_RE(txt).post)]
  ELSE IF PRE_RE(txt) # NoMatch /\ POST_RE(txt) # NoMatch
       THEN [kind |-> "explicit", pre |-> Strip(PRE_RE(txt)), post |-> Strip(POST_RE(txt))]
       ELSE [kind |-> "ValueError", pre |-> <<>>, post |-> <<>>]

\* extract_pre_post_from_key on the text of the file: the pair and the grammar
\* it comes from, or the ValueError
extract_pre_post_from_key(txt) ==
  IF PRE_RE(txt) # NoMatch /\ POST_RE(txt) # NoMatch
  THEN [kind |-> "explicit", pre |-> Strip(PRE_RE(txt)), post |-> Strip(POST_RE(txt))]
  ELSE IF PROBLEM_RE(txt).pre # NoMatch
       THEN [kind |-> "problem", pre |-> Strip(PROBLEM_RE(txt).pre),
             post |-> Strip(PROBLEM_RE(txt).post)]
       ELSE [kind |-> "ValueError", pre |-> <<>>, post |-> <<>>]

\* ---------------------------------------------------------------------------
\* orchestrator.py: sanitizing
\* ---------------------------------------------------------------------------

\* \w of the regular expressions, for the \b after a directive name
IsWordChar(c) == c \in {"x"}

\* one pattern of _SANITIZE_REPLACEMENTS matches from position i: ^ (start of
\* the text or after a newline), greedy \s* (newlines included), the directive
\* d, \b, .* to the end of the line, and the newline.  The position of that
\* newline, 0 when there is no match at i.
NewlineAt(s, i) == s[i] = "\n"

DirectiveEnd(s, i, d) ==
  LET k == SkipSpace(s, i) IN
  IF /\ (i = 1 \/ s[i - 1] = "\n")
     /\ k <= Len(s) /\ Lower(s[k]) = d
     /\ ~(k + 1 <= Len(s) /\ IsWordChar(s[k + 1]))
  THEN First({n \in (k + 1)..Len(s) : NewlineAt(s, n)})
  ELSE 0

\* re.sub(pattern of d, '', s) from position pos on: the leftmost match at or
\* after pos is cut out and the scan goes on behind it
RECURSIVE SubDirective(_, _, _)
SubDirective(s, pos, d) ==
  IF \E i \in pos..Len(s) : DirectiveEnd(s, i, d) # 0
  THEN LET i == CHOOSE i \in pos..Len(s) :
                  /\ DirectiveEnd(s, i, d) # 0
                  /\ \A j \in pos..(i - 1) : DirectiveEnd(s, j, d) = 0
       IN  SubSeq(s, pos, i - 1) \o SubDirective(s, DirectiveEnd(s, i, d) + 1, d)
  ELSE SubSeq(s, pos, Len(s))

\* re.sub with count=1: only the first match of the pattern is cut out
SubDirectiveOnce(s, pos, d) ==
  IF \E i \in pos..Len(s) : DirectiveEnd(s, i, d) # 0
  THEN LET i == CHOOSE i \in pos..Len(s) :
                  /\ DirectiveEnd(s, i, d) # 0
                  /\ \A j \in pos..(i - 1) : DirectiveEnd(s, j, d) = 0
       IN  SubSeq(s, pos, i - 1) \o SubSeq(s, DirectiveEnd(s, i, d) + 1, Len(s))
  ELSE SubSeq(s, pos, Len(s))

\* the directive names of _SANITIZE_REPLACEMENTS, in the order of the list
SANITIZE_REPLACEMENTS == <<"\\javaSource", "\\classpath", "\\bootclasspath">>

\* the three substitutions, each limited to its first match
sanitize_first_match_only(txt) ==
  SubDirectiveOnce(SubDirectiveOnce(SubDirectiveOnce(txt, 1, SANITIZE_REPLACEMENTS[1]),
                                    1, SANITIZE_REPLACEMENTS[2]),
                   1, SANITIZE_REPLACEMENTS[3])

\* _sanitize_key_file on the text of the file: the three substitutions in turn
sanitize_key_file(txt) ==
  SubDirective(SubDirective(SubDirective(txt, 1, SANITIZE_REPLACEMENTS[1]),
                            1, SANITIZE_REPLACEMENTS[2]),
               1, SANITIZE_REPLACEMENTS[3])

\* ---------------------------------------------------------------------------
\* orchestrator.py: splicing
\* ---------------------------------------------------------------------------

\* the marker token of the explicit path
SYNTHESIS_HOLE == "//@SYNTHESIS_HOLE"

\* what _splice_llm_code raises when it finds no place for the code
SpliceError == <<"RuntimeError">>

\* the code as _splice_llm_code inserts it: stripped, without a leading "{"
\* and trailing "}" when it has both, and with ";" appended when it is not
\* empty and does not end with one
normalize_code(llm_code) ==
  LET c0 == Strip(llm_code)
      c1 == IF c0 # <<>> /\ c0[1] = "{" /\ c0[Len(c0)] = "}"
            THEN Strip(SubSeq(c0, 2, Len(c0) - 1))
            ELSE c0
  IN  IF c1 # <<>> /\ RStrip(c1)[Len(RStrip(c1))] # ";" THEN Append(c1, ";") ELSE c1

HasMarker(src) == \E i \in 1..Len(src) : src[i] = SYNTHESIS_HOLE

\* src.replace(marker, code) from position pos on: every occurrence
RECURSIVE ReplaceMarker(_, _, _)
ReplaceMarker(src, pos, code) ==
  IF pos > Len(src) THEN <<>>
  ELSE (IF src[pos] = SYNTHESIS_HOLE THEN code ELSE <<src[pos]>>)
         \o ReplaceMarker(src, pos + 1, code)

\* prog_re behind the "{" that opens group 1: the "}" at r closes the group
\* when \s*, "}", \s* and \endprogram follow it
BodyEndAt(s, r) ==
  /\ s[r] = "}"
  /\ LET c == SkipSpace(s, r + 1) IN
       /\ c <= Len(s) /\ s[c] = "}"
       /\ LET e == SkipSpace(s, c + 1) IN e <= Len(s) /\ s[e] = "\\endprogram"

\* the start of group 1 of prog_re for a match that starts at i: \program,
\* \s*, "{", \s*, and the "{" of the group; 0 when there is no match at i
BodyStart(s, i) ==
  IF s[i] # "\\program" THEN 0
  ELSE LET b == SkipSpace(s, i + 1) IN
       IF ~(b <= Len(s) /\ s[b] = "{") THEN 0
       ELSE LET g == SkipSpace(s, b + 1) IN
            IF g <= Len(s) /\ s[g] = "{" /\ \E r \in (g + 1)..Len(s) : BodyEndAt(s, r)
            THEN g ELSE 0

ProgramAt(s, i) == BodyStart(s, i) # 0

\* prog_re.search(src): start and end of group 1 of the leftmost match, the
\* lazy .*? ending at the first "}" that lets the rest match
prog_re(src) ==
  LET i == First({n \in 1..Len(src) : ProgramAt(src, n)}) IN
  IF i = 0 THEN [start |-> 0, end |-> 0]
  ELSE [start |-> BodyStart(src, i),
        end   |-> First({r \in (BodyStart(src, i) + 1)..Len(src) : BodyEndAt(src, r)})]

\* the fallback path of _splice_llm_code: the code on a line of its own in
\* front of the last "}" of group 1
splice_into_program(src, code) ==
  LET m == prog_re(src) IN
  IF m.start = 0 THEN SpliceError
  ELSE SubSeq(src, 1, m.start - 1)
         \o RStrip(SubSeq(src, m.start, m.end - 1)) \o <<"\n">> \o code \o <<"\n", "}">>
         \o SubSeq(src, m.end + 1, Len(src))

\* _splice_llm_code on the text of the working copy: the patched text, or
\* SpliceError
splice_llm_code(src, llm_code) ==
  IF HasMarker(src) THEN ReplaceMarker(src, 1, normalize_code(llm_code))
  ELSE splice_into_program(src, normalize_code(llm_code))

\* ---------------------------------------------------------------------------
\* orchestrator.py: the javaSource line of the patched script
\* ---------------------------------------------------------------------------

\* java_src_line of execute_llm_pipeline: the directive, the quoted folder
\* and the semicolon
java_src_line == <<"\\javaSource", " ", "\"evalData_noPredicates\"", ";">>

\* target in l for a line l of txt: the target holds no newline, so it lies
\* in a line exactly when it lies in the text
ContainsText(txt, target) ==
  \E i \in 1..(Len(txt) - Len(target) + 1) : SubSeq(txt, i, i + Len(target) - 1) = target

\* re.search('isloopinvariant', line, re.IGNORECASE); the texts of the model
\* spell the word in one way
InvariantAt(txt, i) == txt[i] = "isLoopInvariant"

\* the newline that ends the line of position i, or the end of the text
EndOfLine(txt, i) ==
  IF \E n \in i..Len(txt) : txt[n] = "\n"
  THEN First({n \in i..Len(txt) : txt[n] = "\n"})
  ELSE Len(txt)

\* _insert_java_source_after_invariant on the text of the file: nothing when
\* a line already holds the target; else the line, with a newline, behind the
\* first line that holds isLoopInvariant; else on top
insert_java_source_after_invariant(txt, java_source_line) ==
  LET insert_line == IF java_source_line # <<>> /\ java_source_line[Len(java_source_line)] = "\n"
                     THEN java_source_line ELSE Append(java_source_line, "\n")
      i == First({n \in 1..Len(txt) : InvariantAt(txt, n)})
  IN  IF ContainsText(txt, Strip(java_source_line)) THEN txt
      ELSE IF i # 0
           THEN SubSeq(txt, 1, EndOfLine(txt, i)) \o insert_line
                  \o SubSeq(txt, EndOfLine(txt, i) + 1, Len(txt))
           ELSE insert_line \o txt

\* ---------------------------------------------------------------------------
\* postprocess.py, keyRunner.py
\* ---------------------------------------------------------------------------

\* the stage labels of the timing record
TIME_POINTS ==
  << "start", "setup", "extract", "read_vars", "prep_prompt", "start_synth", "end_synth",
     "splice", "verify", "done" >>

\* write_timefile: the labels, the offsets from the first timestamp in
\* milliseconds (the clock of the model ticks in whole seconds), and the
\* differences of consecutive offsets
write_timefile(labels, ts) ==
  LET times == [i \in 1..Len(ts) |-> 1000 * ts[i] - 1000 * ts[1]] IN
  [labels |-> labels, times |-> times,
   diffs |-> [i \in 1..(Len(times) - 1) |-> times[i + 1] - times[i]]]

\* the exit statuses the verifier may end with
ExitStatuses == {0, 1, 2}

\* ---------------------------------------------------------------------------
\* State
\* ---------------------------------------------------------------------------

VARIABLES
  content,      \* a response body handed to _parse_java_from_response
  parsed,       \* what _parse_java_from_response returned for it
  scriptParts,  \* the pieces the .key text below is made of
  keyScript,    \* the text of a .key file handed to extract_pre_post_from_key
  specPair,     \* what extract_pre_post_from_key returned (or raised) for it
  fileHist,     \* the contents of a .key file: as given, and after each run
                \* of _sanitize_key_file on it
  spliceSrc,    \* the text of a working copy handed to _splice_llm_code
  spliceCode,   \* the code handed to _splice_llm_code
  patched,      \* what _splice_llm_code wrote for them, or SpliceError
  runs,         \* two pipeline runs side by side: per run its statement
                \* identifier, run number, stage and the paths it has written
  \* one run of execute_llm_pipeline
  pc,            \* the stage the run has completed, or where it is waiting
  fs,            \* the files: their text, or NoFile
  written,       \* the files the run has written so far
  clock,         \* time.time()
  timestamps,    \* info["timestamps"]
  pair,          \* pre_text, post_text
  calls,         \* the models _call was invoked for, in order
  requests,      \* the requests the client sent: model and outcome, in order
  attempt,       \* requests sent within the current _call
  lastContent,   \* content of the last response received
  primaryExc,    \* what _call(MODEL_PRIMARY) raised, "none" if nothing (yet)
  fallbackExc,   \* what _call(MODEL_FALLBACK) raised, "none" if nothing (yet)
  java_codeblock,\* what synthesize_java_update returned
  raised,        \* the exception that left execute_llm_pipeline, "none" if none
  env,           \* what is installed: the KeY jar and the java executable
  rc,            \* <<what run_key returned>>, <<>> before it has returned
  timefile,      \* the three lines of times.txt
  result         \* <<what execute_llm_pipeline returned>>, <<>> before it has

pureVars == <<content, parsed, scriptParts, keyScript, specPair, fileHist,
             spliceSrc, spliceCode, patched, runs>>

synthVars == <<calls, requests, attempt, lastContent, primaryExc, fallbackExc, java_codeblock>>

\* the verifier and the end of the run
verifyVars == <<env, rc, timefile, result>>

pipeVars == <<pc, fs, written, clock, timestamps, pair, calls, requests, attempt, lastContent,
              primaryExc, fallbackExc, java_codeblock, raised, env, rc, timefile, result>>

vars == <<content, parsed, scriptParts, keyScript, specPair, fileHist,
          spliceSrc, spliceCode, patched, runs,
          pc, fs, written, clock, timestamps, pair, calls, requests, attempt, lastContent,
          primaryExc, fallbackExc, java_codeblock, raised, env, rc, timefile, result>>

\* a function that has not been called has returned nothing
NotCalled == <<"NotCalled">>

NoParts ==
  [form |-> "none", X |-> <<>>, Y |-> <<>>, P |-> <<>>, U |-> <<>>, G |-> <<>>, Q |-> <<>>,
   w |-> <<>>, tag |-> "", first |-> "", pfx |-> <<>>]
NoPair == [kind |-> "NotCalled", pre |-> <<>>, post |-> <<>>]

ParseIdle == content = <<>> /\ parsed = NotCalled
ExtractIdle == scriptParts = NoParts /\ keyScript = <<>> /\ specPair = NoPair
SanitizeIdle == fileHist = <<>>
SpliceIdle == spliceSrc = <<>> /\ spliceCode = <<>> /\ patched = NotCalled
RunsIdle == runs = <<>>

\* a path that names no file
NoFile == <<"NoFile">>

FileNames ==
  {"statement", "helper_src", "cbcmodel", "temp_key", "temp_helper", "javaCode", "verify_key"}

\* times.txt has not been written
NoTimefile == [labels |-> <<>>, times |-> <<>>, diffs |-> <<>>]

\* nothing is known of the installation while no run is under way
NoEnv == [jar |-> FALSE, java |-> FALSE]

\* no run of the pipeline is under way
PipelineIdle ==
  /\ pc = "idle" /\ fs = [f \in FileNames |-> NoFile] /\ written = {} /\ clock = 0
  /\ timestamps = <<>> /\ pair = NoPair /\ calls = <<>> /\ requests = <<>> /\ attempt = 0
  /\ lastContent = NotCalled /\ primaryExc = "none" /\ fallbackExc = "none"
  /\ java_codeblock = NotCalled /\ raised = "none"
  /\ env = NoEnv /\ rc = <<>> /\ timefile = NoTimefile /\ result = <<>>

\* ---------------------------------------------------------------------------
\* Sanitizing a .key file, repeatedly
\* ---------------------------------------------------------------------------

\* the longest file text of the sanitizing check, in tokens
MaxSanitizeLen == 5

\* how often _sanitize_key_file runs on one file
MaxSanitizeRuns == 2

SanitizeAlphabet ==
  {"\\javaSource", "\\JAVASOURCE", "\\classpath", "\\bootclasspath", " ", "\n", "x"}

\* a longer file: a header with all three directives around two kept lines
SanitizeSample ==
  << "\\classpath", " ", "x", "\n", "x", " ", "x", "\n", " ", "\\javaSource", " ", "x", "\n",
     "\n", "\\bootclasspath", "\n", "x", "\n", "\\JAVASOURCE", " ", "x" >>

SanitizeTexts == SeqsUpTo(SanitizeAlphabet, MaxSanitizeLen) \cup {SanitizeSample}

InitSanitize ==
  /\ ParseIdle /\ ExtractIdle /\ SpliceIdle /\ RunsIdle /\ PipelineIdle
  /\ \E t \in SanitizeTexts : fileHist = <<t>>

\* _sanitize_key_file(path): read, substitute, write back
SanitizeKeyFile ==
  /\ fileHist # <<>>
  /\ Len(fileHist) <= MaxSanitizeRuns
  /\ fileHist' = Append(fileHist, sanitize_key_file(fileHist[Len(fileHist)]))
  /\ UNCHANGED <<content, parsed, scriptParts, keyScript, specPair,
                 spliceSrc, spliceCode, patched, runs, pipeVars>>

NextSanitize == SanitizeKeyFile

SpecSanitize == InitSanitize /\ [][NextSanitize]_vars

\* a directive name stands at position i of t as the first token of its line
\* that is not a blank, and ends there as a word
DirectiveLineAt(t, i) ==
  /\ \E k \in 1..Len(SANITIZE_REPLACEMENTS) : Lower(t[i]) = SANITIZE_REPLACEMENTS[k]
  /\ ~(i + 1 <= Len(t) /\ IsWordChar(t[i + 1]))
  /\ \E b \in 1..i : /\ (b = 1 \/ t[b - 1] = "\n")
                     /\ \A j \in b..(i - 1) : t[j] = " "

HasDirectiveLine(t) == \E i \in 1..Len(t) : DirectiveLineAt(t, i)

\* C9: sanitizing is idempotent: every run of _sanitize_key_file after the
\* first leaves the file exactly as the run before left it.
C9_SanitizeIdempotent ==
  \A k \in 2..(Len(fileHist) - 1) : fileHist[k + 1] = fileHist[k]

\* C9 witness: the first run removed a directive line, a directive name is
\* still in the file, and the file was sanitized a second time
C9_Witness ==
  /\ Len(fileHist) >= 3
  /\ fileHist[2] # fileHist[1]
  /\ \E i \in 1..Len(fileHist[2]) : Lower(fileHist[2][i]) = "\\javaSource"

\* C10 (as claimed): after sanitizing, no line of the file starts (after
\* blanks) with one of the three directives, a last line without a newline
\* included.
C10_NoDirectiveLineLeft ==
  Len(fileHist) >= 2 => ~HasDirectiveLine(fileHist[2])

\* the end of the line that starts at position pos of t: its newline, or the
\* end of the text
LineEnd(t, pos) ==
  IF \E n \in pos..Len(t) : t[n] = "\n"
  THEN First({n \in pos..Len(t) : t[n] = "\n"})
  ELSE Len(t)

\* the lines of t, from position pos on, without the lines that carry a
\* directive; every other line as it is, newline included
RECURSIVE WithoutDirectiveLines(_, _)
WithoutDirectiveLines(t, pos) ==
  IF pos > Len(t) THEN <<>>
  ELSE LET e == LineEnd(t, pos) IN
       (IF \E i \in pos..e : DirectiveLineAt(t, i) THEN <<>> ELSE SubSeq(t, pos, e))
         \o WithoutDirectiveLines(t, e + 1)

\* C11 (as claimed): the sanitized file is the sequence of lines of the input
\* with the directive lines deleted; every other line, an empty or blank line
\* in front of a directive line included, is still there, unmodified and in
\* its place.
C11_OtherLinesUnchanged ==
  Len(fileHist) >= 2 => fileHist[2] = WithoutDirectiveLines(fileHist[1], 1)

\* ---------------------------------------------------------------------------
\* Parsing a response body
\* ---------------------------------------------------------------------------

\* the longest response body over BodyAlphabet, in tokens
MaxBodyLen == 6

BodyAlphabet == {"tick", "x", " "}

\* code as a model sends it: none, blank, a statement, a statement in a fence
CodeTexts ==
  { <<>>, <<" ">>, <<"x", ";">>, <<" ", "x", ";", " ">>,
    <<"tick", "tick", "tick", "x", ";", "tick", "tick", "tick">> }

Blanks == {<<>>, <<" ">>, <<"\n", " ">>}

\* a JSON object with one string member
JsonObject(key, w, code) ==
  w \o <<"{", "\"">> \o key \o <<"\"", ":">> \o w \o <<"\"">> \o code \o <<"\"", "}">> \o w

\* a fenced code block between two texts
Fenced(before, lang, w, code, after) ==
  before \o <<"tick", "tick", "tick">> \o lang \o w \o code \o <<"tick", "tick", "tick">> \o after

JsonBodies ==
  {JsonObject(key, w, code) : key \in {<<"java">>, <<"x">>}, w \in Blanks, code \in CodeTexts}
  \cup { <<"{", "}">>, <<"{", "\"", "java", "\"", ":", "null", "}">>, <<"null">>,
         <<"\"", "x", ";", "\"">>,
         <<"{", "\"", "java", "\"", ":", "\"", "x", ";", "\"">>,
         JsonObject(<<"java">>, <<>>, <<"x", ";">>) \o <<"x">> }

FencedBodies ==
  {Fenced(before, lang, w, code, after) :
     before \in {<<>>, <<"x", " ">>}, lang \in {<<>>, <<"java">>}, w \in Blanks,
     code \in {<<>>, <<"x", ";">>, <<"x", ";", "\n">>},
     after \in {<<>>, <<" ", "x">>, <<"tick", "tick", "tick", "x", "tick", "tick", "tick">>}}

Bodies == JsonBodies \cup FencedBodies \cup SeqsUpTo(BodyAlphabet, MaxBodyLen)

InitParse ==
  /\ ExtractIdle /\ SanitizeIdle /\ SpliceIdle /\ RunsIdle /\ PipelineIdle
  /\ content \in Bodies
  /\ parsed = NotCalled

\* _parse_java_from_response(content)
ParseResponse ==
  /\ parsed = NotCalled
  /\ parsed' = ParseJavaFromResponse(content)
  /\ UNCHANGED <<content, scriptParts, keyScript, specPair, fileHist,
                 spliceSrc, spliceCode, patched, runs, pipeVars>>

NextParse == ParseResponse

SpecParse == InitParse /\ [][NextParse]_vars

\* the body is a structured object that has the designated code field
HasJavaField(c) == JsonLoads(c).kind = "dict" /\ JsonLoads(c).key = <<"java">>

\* the value of that field (a null field has no text)
JavaField(c) == JsonLoads(c).str

\* C4 (as claimed): the result is the code field when the body is an object
\* with that field; otherwise the interior of the first fenced block when
\* there is one; otherwise the whole body, trimmed.
C4_OrderedFallbackChain ==
  parsed # NotCalled =>
    parsed = IF HasJavaField(content) THEN Strip(JavaField(content))
             ELSE IF FencedInterior(content) # NoMatch THEN Strip(FencedInterior(content))
             ELSE Strip(content)

\* ---------------------------------------------------------------------------
\* Extracting PRE and POST from a .key text
\* ---------------------------------------------------------------------------

\* the longest .key text over ScriptAlphabet, in tokens
MaxScriptLen == 4

ScriptAlphabet == {"\\pre", "\\post", "{", "}", "a", " "}

\* a tagged block: the tag, whitespace, and the braces around its text
Block(tag, w, text) == <<tag>> \o w \o <<"{">> \o text \o <<"}">>

\* \problem { P -> { U } \<{ G }\> Q }
Problem(tag, w, P, U, G, Q) ==
  <<tag>> \o w \o <<"{">> \o P \o <<"->">> \o w \o <<"{">> \o U \o <<"}">> \o w
    \o <<"\\<">> \o w \o <<"{">> \o G \o <<"}">> \o w \o <<"\\>">> \o Q \o <<"}">>

\* .key texts with an explicit \pre{X} block and an explicit \post{Y} block
ExplicitParts ==
  [ form : {"explicit"},
    X : {<<"a">>, <<" ", "a", "\n", "a", " ">>, <<>>, <<" ">>, <<"a", "{", "b", "}", "a">>},
    Y : {<<"b">>, <<"\n", "b", " ">>, <<>>, <<"{", "b", "}">>},
    P : {<<>>}, U : {<<>>}, G : {<<>>}, Q : {<<>>},
    w : Blanks, tag : {"\\pre", "\\PRE"}, first : {"pre", "post"},
    pfx : {<<>>, <<"c", "\n">>, <<"\\pre", "c", " ">>} ]

\* .key texts in the \problem form, without explicit blocks
ProblemParts ==
  [ form : {"problem"}, X : {<<>>}, Y : {<<>>},
    P : {<<"a">>, <<" ", "a", " ">>, <<>>, <<"a", "->", "a">>},
    U : {<<"u">>, <<>>, <<"{", "u", "}">>, <<"{", "u", "}", "\\<", "{", "u", "}", "\\>", "u">>},
    G : {<<"g">>, <<"{", "g", "}">>, <<"g", "{", "g", "}", "\\>", "g">>},
    Q : {<<"b">>, <<" ", "b", "\n">>, <<>>, <<"{", "b", "}", "b">>, <<"b", "->", "b">>},
    w : Blanks, tag : {"\\problem", "\\PROBLEM"}, first : {""},
    pfx : {<<>>, <<"c", "\n">>} ]

\* .key texts in the \problem form that also hold explicit blocks: both, or
\* only the one named by first
BothParts ==
  [ form : {"both"}, X : {<<"x">>}, Y : {<<"y">>},
    P : {<<"a">>}, U : {<<"u">>}, G : {<<"g">>, <<"\\pre", "{", "x", "}">>}, Q : {<<"b">>},
    w : {<<>>, <<" ">>}, tag : {"\\problem"}, first : {"both", "pre", "post"},
    pfx : {<<>>, <<"blocks">>} ]

RawParts ==
  [ form : {"raw"}, X : SeqsUpTo(ScriptAlphabet, MaxScriptLen), Y : {<<>>},
    P : {<<>>}, U : {<<>>}, G : {<<>>}, Q : {<<>>},
    w : {<<>>}, tag : {""}, first : {""}, pfx : {<<>>} ]

\* the .key text made of the parts
Build(p) ==
  CASE p.form = "explicit" ->
         p.pfx \o (IF p.first = "pre"
                   THEN Block(p.tag, p.w, p.X) \o <<"\n">> \o Block("\\post", p.w, p.Y)
                   ELSE Block("\\post", p.w, p.Y) \o <<"\n">> \o Block(p.tag, p.w, p.X))
               \o <<"\n">>
    [] p.form = "problem" ->
         p.pfx \o Problem(p.tag, p.w, p.P, p.U, p.G, p.Q) \o <<"\n">>
    [] p.form = "both" ->
         LET blocks == (IF p.first \in {"both", "pre"} THEN Block("\\pre", p.w, p.X) ELSE <<>>)
                       \o (IF p.first \in {"both", "post"} THEN Block("\\post", p.w, p.Y) ELSE <<>>)
             prob   == Problem(p.tag, p.w, p.P, p.U, p.G, p.Q)
         IN  IF p.pfx = <<>> THEN prob \o <<"\n">> \o blocks ELSE blocks \o <<"\n">> \o prob
    [] OTHER -> p.X

InitExtract ==
  /\ ParseIdle /\ SanitizeIdle /\ SpliceIdle /\ RunsIdle /\ PipelineIdle
  /\ scriptParts \in ExplicitParts \cup ProblemParts \cup BothParts \cup RawParts
  /\ keyScript = Build(scriptParts)
  /\ specPair = NoPair

\* extract_pre_post_from_key(key_path) on a file that holds keyScript
ExtractPrePost ==
  /\ specPair = NoPair
  /\ specPair' = extract_pre_post_from_key(keyScript)
  /\ UNCHANGED <<content, parsed, scriptParts, keyScript, fileHist,
                 spliceSrc, spliceCode, patched, runs, pipeVars>>

NextExtract == ExtractPrePost

SpecExtract == InitExtract /\ [][NextExtract]_vars

\* every brace of t that opens is closed and none closes before it opened
RECURSIVE Depth(_, _)
Depth(t, n) ==
  IF n = 0 THEN 0
  ELSE Depth(t, n - 1) + (IF t[n] = "{" THEN 1 ELSE IF t[n] = "}" THEN -1 ELSE 0)

Balanced(t) == Depth(t, Len(t)) = 0 /\ \A n \in 1..Len(t) : Depth(t, n) >= 0

\* only whitespace lies strictly between the positions i and j of t
Gap(t, i, j) == \A k \in (i + 1)..(j - 1) : IsSpace(t[k])

\* t holds a block with the given tag: the tag, whitespace, "{", and a later "}"
HasBlock(t, tag) ==
  \E i \in 1..Len(t) : /\ Lower(t[i]) = tag
    /\ \E b \in (i + 1)..Len(t) : /\ t[b] = "{" /\ Gap(t, i, b)
         /\ \E k \in (b + 1)..Len(t) : t[k] = "}"

\* t holds the \problem form: every piece of the pattern, in its order
HasProblemForm(t) ==
  \E i \in 1..Len(t) : /\ Lower(t[i]) = "\\problem"
    /\ \E b \in (i + 1)..Len(t) : /\ t[b] = "{" /\ Gap(t, i, b)
    /\ \E a \in (b + 1)..Len(t) : /\ t[a] = "->"
    /\ \E ub \in (a + 1)..Len(t) : /\ t[ub] = "{" /\ Gap(t, a, ub)
    /\ \E r \in (ub + 1)..Len(t) : /\ t[r] = "}"
    /\ \E l \in (r + 1)..Len(t) : /\ t[l] = "\\<" /\ Gap(t, r, l)
    /\ \E pb \in (l + 1)..Len(t) : /\ t[pb] = "{" /\ Gap(t, l, pb)
    /\ \E q \in (pb + 1)..Len(t) : /\ t[q] = "}"
    /\ \E g \in (q + 1)..Len(t) : /\ t[g] = "\\>" /\ Gap(t, q, g)
    /\ \E e \in (g + 1)..Len(t) : t[e] = "}"

Returned == specPair.kind \in {"explicit", "problem"}

\* C5 (as claimed): for a script with a well-formed pre{X} and a well-formed
\* post{Y}, X and Y balanced in their braces, extraction returns exactly
\* (X, Y) trimmed.
C5_ExplicitBlocksExact ==
  (/\ specPair # NoPair /\ scriptParts.form = "explicit"
   /\ Balanced(scriptParts.X) /\ Balanced(scriptParts.Y))
  => specPair = [kind |-> "explicit", pre |-> Strip(scriptParts.X), post |-> Strip(scriptParts.Y)]

\* the text between the opening brace of \problem and the first "->" of t
BeforeFirstArrow(t) ==
  LET i == CHOOSE i \in 1..Len(t) : Lower(t[i]) = "\\problem"
      b == SkipSpace(t, i + 1)
      a == CHOOSE a \in (b + 1)..Len(t) : t[a] = "->" /\ \A j \in (b + 1)..(a - 1) : t[j] # "->"
  IN  SubSeq(t, b + 1, a - 1)

\* C6 (as claimed): for a script in the \problem form, with update block,
\* program fragment and POST balanced in their braces, PRE is the trimmed text
\* before the first "->" and POST the trimmed text between the program
\* fragment and the brace that closes \problem.
C6_ProblemFormExact ==
  (/\ specPair # NoPair /\ scriptParts.form = "problem"
   /\ Balanced(scriptParts.U) /\ Balanced(scriptParts.G) /\ Balanced(scriptParts.Q))
  => specPair = [kind |-> "problem", pre |-> Strip(BeforeFirstArrow(keyScript)),
                 post |-> Strip(scriptParts.Q)]

\* C7: the explicit blocks win whenever both are there, the \problem form is
\* used only when one of them is missing, and a script that matches neither
\* grammar gets the error.
C7_GrammarPriority ==
  specPair # NoPair =>
    LET both == HasBlock(keyScript, "\\pre") /\ HasBlock(keyScript, "\\post") IN
    /\ both => specPair = [kind |-> "explicit", pre |-> Strip(PRE_RE(keyScript)),
                           post |-> Strip(POST_RE(keyScript))]
    /\ specPair.kind = "explicit" => both
    /\ specPair.kind = "problem" <=> (~both /\ HasProblemForm(keyScript))
    /\ specPair.kind = "ValueError" <=> (~both /\ ~HasProblemForm(keyScript))

\* C7 witness: both grammars match the script, and the pair returned is the
\* one of the explicit blocks
C7_Witness ==
  /\ scriptParts.form = "both" /\ scriptParts.first = "both"
  /\ HasProblemForm(keyScript)
  /\ specPair = [kind |-> "explicit", pre |-> <<"x">>, post |-> <<"y">>]

\* C8 (as claimed): a pair that extraction returns has a non-empty pre and a
\* non-empty post.
C8_PairNonEmpty ==
  Returned => specPair.pre # <<>> /\ specPair.post # <<>>

\* ---------------------------------------------------------------------------
\* Splicing code into a working copy
\* ---------------------------------------------------------------------------

\* the longest working copy over SpliceAlphabet, in tokens
MaxSpliceLen == 4

SpliceAlphabet == {SYNTHESIS_HOLE, "\\program", "\\endprogram", "{", "}", " ", "x"}

\* \program { { body } } \endprogram, with whitespace w between the pieces and
\* whitespace v in front of the brace that closes the body
ProgramBlock(w, body, v) ==
  <<"\\program">> \o w \o <<"{">> \o w \o <<"{">> \o body \o v \o <<"}">> \o w \o <<"}">>
    \o w \o <<"\\endprogram">>

ProgramBodies == {<<>>, <<"x", ";">>, <<"\n", "x", ";">>, <<"c", "{", "x", ";", "}">>}

\* working copies with a marker, with two markers, with a \program block,
\* with both, with two blocks, and with a block that has no inner body
SpliceSources ==
  { <<"x", ";", "\n", SYNTHESIS_HOLE, "\n", "x", ";", "\n">>,
    <<"{", " ", SYNTHESIS_HOLE, " ", "}">>,
    <<SYNTHESIS_HOLE, "\n", "x", ";", "\n", SYNTHESIS_HOLE, "\n">>,
    <<"\\program", " ", "{", " ", "x", ";", " ", "}", " ", "\\endprogram">> }
  \cup {pfx \o ProgramBlock(w, body, v) \o <<"\n">> :
          pfx \in {<<>>, <<"x", "\n">>, <<SYNTHESIS_HOLE, "\n">>},
          w \in Blanks, body \in ProgramBodies, v \in Blanks}
  \cup {ProgramBlock(<<>>, <<"x", ";">>, v) \o <<"\n">> \o ProgramBlock(<<" ">>, <<"y", ";">>, v) :
          v \in Blanks}
  \cup SeqsUpTo(SpliceAlphabet, MaxSpliceLen)

\* code as synthesis returns it: a statement, one without terminator, one in
\* braces, one in braces with whitespace, a block statement, two blocks, none
SpliceCodes ==
  { <<"x", ";">>, <<"x">>, <<"{", "x", ";", "}">>, <<" ", "{", " ", "x", " ", "}", "\n">>,
    <<"c", "{", "x", ";", "}">>, <<"{", "x", ";", "}", "{", "y", ";", "}">>, <<"{", "}">>,
    <<"x", ";", " ">>, <<>> }

InitSplice ==
  /\ ParseIdle /\ ExtractIdle /\ SanitizeIdle /\ RunsIdle /\ PipelineIdle
  /\ spliceSrc \in SpliceSources
  /\ spliceCode \in SpliceCodes
  /\ patched = NotCalled

\* _splice_llm_code(original_key_path, output_key_path, llm_code) on a working
\* copy that holds spliceSrc
SpliceLlmCode ==
  /\ patched = NotCalled
  /\ patched' = splice_llm_code(spliceSrc, spliceCode)
  /\ UNCHANGED <<content, parsed, scriptParts, keyScript, specPair, fileHist,
                 spliceSrc, spliceCode, runs, pipeVars>>

NextSplice == SpliceLlmCode

SpecSplice == InitSplice /\ [][NextSplice]_vars

\* splice has written a patched text
Spliced == patched # NotCalled /\ patched # SpliceError

\* how often the token c stands in t
RECURSIVE Count(_, _)
Count(t, c) ==
  IF t = <<>> THEN 0 ELSE (IF Head(t) = c THEN 1 ELSE 0) + Count(Tail(t), c)

\* C12 (as claimed): on a text with the marker, the patched text is the
\* original with the normalized code at the marker's position, in exactly one
\* place: what stands before and behind that place is the original text.
\* This holds also when the text has a \program block.
C12_MarkerReplacedInPlace ==
  (patched # NotCalled /\ HasMarker(spliceSrc)) =>
    \E i \in 1..Len(spliceSrc) :
      /\ spliceSrc[i] = SYNTHESIS_HOLE
      /\ patched = SubSeq(spliceSrc, 1, i - 1) \o normalize_code(spliceCode)
                     \o SubSeq(spliceSrc, i + 1, Len(spliceSrc))

\* C13 (as claimed): whenever splice succeeds, the patched text has as many
\* "{" as the original text and the (normalized) code together, and as many
\* "}".
C13_BraceCountPreserved ==
  Spliced =>
    /\ Count(patched, "{") = Count(spliceSrc, "{") + Count(normalize_code(spliceCode), "{")
    /\ Count(patched, "}") = Count(spliceSrc, "}") + Count(normalize_code(spliceCode), "}")

\* the brace-delimited body of a structural block of t: \program at i, "{",
\* the "{" of the body at g, its "}" at r, then "}" and \endprogram, with
\* nothing but whitespace between these pieces
IsProgramBody(t, i, g, r) ==
  /\ t[i] = "\\program" /\ t[g] = "{" /\ t[r] = "}" /\ g < r
  /\ \E b \in (i + 1)..(g - 1) : t[b] = "{" /\ Gap(t, i, b) /\ Gap(t, b, g)
  /\ \E c \in (r + 1)..Len(t) : /\ t[c] = "}" /\ Gap(t, r, c)
       /\ \E e \in (c + 1)..Len(t) : t[e] = "\\endprogram" /\ Gap(t, c, e)

\* the first structural block of t with a body, and the first "}" that can
\* close that body: the position of that "}", 0 when t has no such block
BodyClose(t) ==
  LET blocks == {i \in 1..Len(t) : \E g, r \in 1..Len(t) : IsProgramBody(t, i, g, r)} IN
  IF blocks = {} THEN 0
  ELSE First({r \in 1..Len(t) : \E g \in 1..Len(t) : IsProgramBody(t, First(blocks), g, r)})

\* C19 (as claimed): on a text without marker but with a structural block,
\* the patched text is the original with the normalized code immediately in
\* front of the brace that closes the body, every other token (whitespace in
\* front of that brace included) as it was; on a text with neither, splice
\* raises and writes nothing.
C19_InsertedBeforeClosingBrace ==
  (patched # NotCalled /\ ~HasMarker(spliceSrc)) =>
    LET r == BodyClose(spliceSrc) IN
    IF r = 0 THEN patched = SpliceError
    ELSE patched = SubSeq(spliceSrc, 1, r - 1) \o normalize_code(spliceCode)
                     \o SubSeq(spliceSrc, r, Len(spliceSrc))

\* ---------------------------------------------------------------------------
\* Two runs of the pipeline side by side
\* ---------------------------------------------------------------------------

\* the largest run number (temp_number) a run is given
MaxRunNumber == 10

\* statement identifiers (statement_file), character by character
StatementIds == {<<"S">>, <<"S", "1">>, <<"S", "_", "1">>}

\* the folders that hold statement files
StatementDirs == {"proveA", "proveB"}

\* str(run_num): the decimal numeral of n, character by character
RECURSIVE DecimalDigits(_)
DecimalDigits(n) ==
  LET digit(d) == <<"0", "1", "2", "3", "4", "5", "6", "7", "8", "9">>[d + 1] IN
  IF n < 10 THEN <<digit(n)>> ELSE Append(DecimalDigits(n \div 10), digit(n % 10))

\* a variant that leaves the run number out of the folder name
temp_folder_without_number(dir, statement_file, temp_number) ==
  <<dir, <<"t", "e", "m", "p", "_">> \o statement_file>>

\* temp_folder of execute_llm_pipeline: the folder temp_<statement_file>_
\* <temp_number> beside the statement file, as a path
temp_folder(dir, statement_file, temp_number) ==
  <<dir, <<"t", "e", "m", "p", "_">> \o statement_file \o <<"_">> \o DecimalDigits(temp_number)>>

\* the statement file of a run, as a path
statement_path(run) == <<run.dir, run.sf \o <<".key">>>>

\* the files a run writes into its working folder, stage by stage
WorkingFile(run, name) == Append(temp_folder(run.dir, run.sf, run.num), name)

temp_key_path(run) == WorkingFile(run, run.sf \o <<".key">>)
helper_path(run) == WorkingFile(run, <<"helper.key">>)
java_code_path(run) == WorkingFile(run, <<"javaCode.txt">>)
verify_key_path(run) == WorkingFile(run, run.sf \o <<"_withLLM.key">>)
key_output_path(run) == WorkingFile(run, <<"openGoals">>)
times_path(run) == WorkingFile(run, <<"times.txt">>)

InitRuns ==
  /\ ParseIdle /\ ExtractIdle /\ SanitizeIdle /\ SpliceIdle /\ PipelineIdle
  /\ \E d \in StatementDirs, s1, s2 \in StatementIds, n1, n2 \in 0..MaxRunNumber :
       runs = << [dir |-> "proveA", sf |-> s1, num |-> n1, pc |-> "start", wrote |-> {}],
                 [dir |-> d, sf |-> s2, num |-> n2, pc |-> "start", wrote |-> {}] >>

\* the run r goes from the stage from to the stage to and writes files
RunStep(r, from, to, files) ==
  /\ runs # <<>>
  /\ runs[r].pc = from
  /\ runs' = [runs EXCEPT ![r].pc = to, ![r].wrote = @ \cup files]
  /\ UNCHANGED <<content, parsed, scriptParts, keyScript, specPair, fileHist,
                 spliceSrc, spliceCode, patched, pipeVars>>

\* _setup_temp: the working copy and, when there is a helper.key, its copy
RunSetup(r) ==
  \E helper \in BOOLEAN :
    RunStep(r, "start", "setup",
            {temp_key_path(runs[r])} \cup (IF helper THEN {helper_path(runs[r])} ELSE {}))

\* extraction, variables and synthesis write nothing; then javaCode.txt
RunPersist(r) == RunStep(r, "setup", "persisted", {java_code_path(runs[r])})

\* _splice_llm_code and _insert_java_source_after_invariant: the patched script
RunSplice(r) == RunStep(r, "persisted", "splice", {verify_key_path(runs[r])})

\* run_key: the verifier writes into the output folder it is given
RunVerify(r) == RunStep(r, "splice", "verify", {key_output_path(runs[r])})

\* times.txt
RunFinish(r) == RunStep(r, "verify", "done", {times_path(runs[r])})

\* a stage raises: the run ends and what it wrote stays
RunRaises(r) ==
  \E from \in {"start", "setup", "persisted", "splice"} : RunStep(r, from, "raised", {})

NextRuns ==
  \E r \in 1..2 :
    \/ RunSetup(r)
    \/ RunPersist(r)
    \/ RunSplice(r)
    \/ RunVerify(r)
    \/ RunFinish(r)
    \/ RunRaises(r)

SpecRuns == InitRuns /\ [][NextRuns]_vars

\* the two runs were given distinct (statement identifier, run number) pairs
DistinctPairs == <<runs[1].sf, runs[1].num>> # <<runs[2].sf, runs[2].num>>

CLIENT_RETRIES == 1

\* the latest reading of the clock
MaxClock == 2

\* statement files: explicit blocks with a directive line and the marker; the
\* \problem form; a text without PRE and POST
KeyExplicit ==
  << "\\javaSource", " ", "x", "\n", "\\pre", "{", "a", "}", "\n", "\\post", "{", "b", "}", "\n",
     "//@SYNTHESIS_HOLE", "\n" >>

KeyProblem == Problem("\\problem", <<" ">>, <<"a">>, <<"u">>, <<"g">>, <<"b">>) \o <<"\n">>

KeyNoSpec == <<"x", "\n">>

\* explicit blocks and the marker on two lines
KeyTwoMarkers ==
  << "\\pre", "{", "a", "}", "\n", "\\post", "{", "b", "}", "\n",
     SYNTHESIS_HOLE, "\n", "x", ";", "\n", SYNTHESIS_HOLE, "\n" >>

\* explicit blocks, a line with isLoopInvariant, and a \program block instead
\* of the marker
KeyProgram ==
  << "\\pre", "{", "a", "}", "\n", "\\post", "{", "b", "}", "\n", "//", "isLoopInvariant", "\n" >>
    \o ProgramBlock(<<" ">>, <<"x", ";">>, <<"\n">>) \o <<"\n">>

\* explicit blocks, the marker, and a comment line that quotes the
\* javaSource line of the pipeline
KeyQuoted ==
  << "\\pre", "{", "a", "}", "\n", "\\post", "{", "b", "}", "\n", "//", " " >>
    \o java_src_line \o <<"\n", SYNTHESIS_HOLE, "\n">>

StatementFiles ==
  {NoFile, KeyExplicit, KeyProblem, KeyNoSpec, KeyTwoMarkers, KeyProgram, KeyQuoted}

\* what a model may answer: code in the JSON object asked for, an object with
\* empty code, an object without the field, a fenced block, an empty fenced
\* block, bare code, a blank body, no content at all
PipelineBodies ==
  { JsonObject(<<"java">>, <<>>, <<"x", ";">>), JsonObject(<<"java">>, <<>>, <<>>),
    <<"{", "}">>, Fenced(<<>>, <<"java">>, <<"\n">>, <<"x", ";">>, <<>>),
    Fenced(<<>>, <<>>, <<>>, <<>>, <<>>), <<"x", ";">>, <<" ">>, <<>> }

InitPipeline ==
  /\ ParseIdle /\ ExtractIdle /\ SanitizeIdle /\ SpliceIdle /\ RunsIdle
  /\ pc = "start"
  /\ \E st \in StatementFiles, h \in {NoFile, <<"x">>},
        m \in {NoFile, <<"id">>, <<"x">>} :
       fs = [f \in FileNames |-> CASE f = "statement" -> st
                                    [] f = "helper_src" -> h
                                    [] f = "cbcmodel" -> m
                                    [] OTHER -> NoFile]
  /\ written = {} /\ clock = 0 /\ timestamps = <<>> /\ pair = NoPair
  /\ calls = <<>> /\ requests = <<>> /\ attempt = 0 /\ lastContent = NotCalled
  /\ primaryExc = "none" /\ fallbackExc = "none"
  /\ java_codeblock = NotCalled /\ raised = "none"
  /\ env \in [jar : BOOLEAN, java : BOOLEAN]
  /\ rc = <<>> /\ timefile = NoTimefile /\ result = <<>>

\* _setup_temp: copy the statement file and, when there is one, helper.key
\* into the working folder, then sanitize the copy
setup_temp(f) ==
  [f EXCEPT !["temp_key"] = sanitize_key_file(f["statement"]),
            !["temp_helper"] = IF f["helper_src"] # NoFile THEN f["helper_src"] ELSE @]

\* execute_llm_pipeline up to the second timestamp: copy and sanitize
Setup ==
  /\ pc = "start"
  /\ IF fs["statement"] = NoFile
     THEN /\ pc' = "raised" /\ raised' = "FileNotFoundError"
          /\ timestamps' = <<clock>>
          /\ UNCHANGED <<fs, written>>
     ELSE /\ fs' = setup_temp(fs)
          /\ written' = {"temp_key"} \cup (IF fs["helper_src"] # NoFile THEN {"temp_helper"} ELSE {})
          /\ timestamps' = <<clock, clock>>
          /\ pc' = "setup"
          /\ UNCHANGED raised
  /\ UNCHANGED <<clock, pair, synthVars, verifyVars, pureVars>>

\* extract PRE/POST from the working copy
Extract ==
  /\ pc = "setup"
  /\ LET r == extract_pre_post_from_key(fs["temp_key"]) IN
       IF r.kind = "ValueError"
       THEN pc' = "raised" /\ raised' = "ValueError" /\ UNCHANGED <<pair, timestamps>>
       ELSE pc' = "extract" /\ pair' = r /\ timestamps' = Append(timestamps, clock)
            /\ UNCHANGED raised
  /\ UNCHANGED <<fs, written, clock, synthVars, verifyVars, pureVars>>

\* read_vars_from_corc_model(cbcmodel_path, cbc_id): the variables of the
\* statement, or the failure when the model does not hold the id
read_vars_from_corc_model(model) ==
  IF \E i \in 1..Len(model) : model[i] = "id" THEN "variables" ELSE "ResolveError"

\* read the variables from the cbcmodel
ReadVars ==
  /\ pc = "extract"
  /\ IF fs["cbcmodel"] = NoFile
     THEN pc' = "raised" /\ raised' = "FileNotFoundError" /\ UNCHANGED timestamps
     ELSE IF read_vars_from_corc_model(fs["cbcmodel"]) = "ResolveError"
          THEN pc' = "raised" /\ raised' = "ResolveError" /\ UNCHANGED timestamps
          ELSE pc' = "read_vars" /\ timestamps' = Append(timestamps, clock)
               /\ UNCHANGED raised
  /\ UNCHANGED <<fs, written, clock, pair, synthVars, verifyVars, pureVars>>

\* a variant that creates javaCode.txt before the model is called
StartSynthOpensFile ==
  /\ pc = "read_vars"
  /\ timestamps' = Append(timestamps, clock)
  /\ calls' = <<"primary">>
  /\ attempt' = 0
  /\ pc' = "primary"
  /\ fs' = [fs EXCEPT !["javaCode"] = <<>>]
  /\ written' = written \cup {"javaCode"}
  /\ UNCHANGED <<clock, pair, requests, lastContent, primaryExc, fallbackExc,
                 java_codeblock, raised, verifyVars, pureVars>>

\* synthesize_java_update is entered: _call(MODEL_PRIMARY)
StartSynth ==
  /\ pc = "read_vars"
  /\ timestamps' = Append(timestamps, clock)
  /\ calls' = <<"primary">>
  /\ attempt' = 0
  /\ pc' = "primary"
  /\ UNCHANGED <<fs, written, clock, pair, requests, lastContent, primaryExc, fallbackExc,
                 java_codeblock, raised, verifyVars, pureVars>>

\* a variant without the fallback: what _call raises leaves the function
after_raise_no_fallback(model) == "raised"

\* the try/except of synthesize_java_update: where control goes when
\* _call(model) raises, whatever the exception
after_raise(model) == IF model = "primary" THEN "fallback" ELSE "raised"

\* _call(pc) raises exc
CallRaises(exc) ==
  /\ pc' = after_raise(pc)
  /\ primaryExc' = IF pc = "primary" THEN exc ELSE primaryExc
  /\ fallbackExc' = IF pc = "fallback" THEN exc ELSE fallbackExc
  /\ calls' = IF after_raise(pc) = "fallback" THEN Append(calls, "fallback") ELSE calls
  /\ raised' = IF after_raise(pc) = "raised" THEN exc ELSE raised
  /\ attempt' = 0
  /\ UNCHANGED <<java_codeblock, timestamps>>

\* the blocking request: the clock may have moved on when it ends
Elapse == clock' \in {t \in {clock, clock + 1} : t <= MaxClock}

\* the request is answered with the body b; _call parses it and returns the
\* code or raises on empty code
RequestAnswered(b) ==
  /\ pc \in {"primary", "fallback"}
  /\ Elapse
  /\ requests' = Append(requests, [model |-> pc, outcome |-> "answered"])
  /\ lastContent' = b
  /\ IF ParseJavaFromResponse(b) = <<>>
     THEN CallRaises("RuntimeError")
     ELSE /\ java_codeblock' = ParseJavaFromResponse(b)
          /\ timestamps' = Append(timestamps, clock')
          /\ pc' = "end_synth"
          /\ attempt' = 0
          /\ UNCHANGED <<calls, primaryExc, fallbackExc, raised>>
  /\ UNCHANGED <<fs, written, pair, verifyVars, pureVars>>

\* the request times out or the connection fails: the client sends it again
\* while it has retries left (max_retries=CLIENT_RETRIES), then raises
RequestFaulted ==
  /\ pc \in {"primary", "fallback"}
  /\ Elapse
  /\ requests' = Append(requests, [model |-> pc, outcome |-> "fault"])
  /\ IF attempt < CLIENT_RETRIES
     THEN /\ attempt' = attempt + 1
          /\ UNCHANGED <<pc, calls, primaryExc, fallbackExc, raised, java_codeblock, timestamps>>
     ELSE CallRaises("transport")
  /\ UNCHANGED <<fs, written, pair, lastContent, verifyVars, pureVars>>

\* the service rejects the request (model not available): no retry
RequestRejected ==
  /\ pc \in {"primary", "fallback"}
  /\ Elapse
  /\ requests' = Append(requests, [model |-> pc, outcome |-> "rejected"])
  /\ CallRaises("APIError")
  /\ UNCHANGED <<fs, written, pair, lastContent, verifyVars, pureVars>>

\* persist the snippet: javaCode.txt
Persist ==
  /\ pc = "end_synth"
  /\ fs' = [fs EXCEPT !["javaCode"] = java_codeblock]
  /\ written' = written \cup {"javaCode"}
  /\ pc' = "persisted"
  /\ UNCHANGED <<clock, timestamps, pair, synthVars, raised, verifyVars, pureVars>>

\* splice the code into the verification copy and insert the javaSource line
Splice ==
  /\ pc = "persisted"
  /\ LET spliced == splice_llm_code(fs["temp_key"], java_codeblock) IN
       IF spliced = SpliceError
       THEN /\ pc' = "raised" /\ raised' = "RuntimeError"
            /\ UNCHANGED <<fs, written, timestamps>>
       ELSE /\ fs' = [fs EXCEPT !["verify_key"] =
                        insert_java_source_after_invariant(spliced, java_src_line)]
            /\ written' = written \cup {"verify_key"}
            /\ timestamps' = Append(timestamps, clock)
            /\ pc' = "splice"
            /\ UNCHANGED raised
  /\ UNCHANGED <<clock, pair, synthVars, verifyVars, pureVars>>

\* resolve the KeY jar and call run_key: without the jar FileNotFoundError;
\* without java (JAVA is None) os.path.isfile raises TypeError; else the
\* process is started, which may fail (OSError), and ends with a status
RunKey ==
  /\ pc = "splice"
  /\ IF ~env.jar
     THEN pc' = "raised" /\ raised' = "FileNotFoundError" /\ UNCHANGED <<clock, rc, timestamps>>
     ELSE IF ~env.java
          THEN pc' = "raised" /\ raised' = "TypeError" /\ UNCHANGED <<clock, rc, timestamps>>
          ELSE /\ Elapse
               /\ \/ pc' = "raised" /\ raised' = "OSError" /\ UNCHANGED <<rc, timestamps>>
                  \/ \E status \in ExitStatuses :
                       /\ rc' = <<status>>
                       /\ timestamps' = Append(timestamps, clock')
                       /\ pc' = "verify"
                       /\ UNCHANGED raised
  /\ UNCHANGED <<fs, written, pair, synthVars, env, timefile, result, pureVars>>

\* return rc == 0
outcome(status) == status = 0

\* write times.txt and return
Finish ==
  /\ pc = "verify"
  /\ timefile' = write_timefile(TIME_POINTS, timestamps)
  /\ written' = written \cup {"times"}
  /\ result' = <<outcome(rc[1])>>
  /\ pc' = "done"
  /\ UNCHANGED <<fs, clock, timestamps, pair, synthVars, raised, env, rc, pureVars>>

Next ==
  \/ Setup
  \/ Extract
  \/ ReadVars
  \/ StartSynth
  \/ \E b \in PipelineBodies : RequestAnswered(b)
  \/ RequestFaulted
  \/ RequestRejected
  \/ Persist
  \/ Splice
  \/ RunKey
  \/ Finish

Spec == InitPipeline /\ [][Next]_vars

\* the requests sent to the model m
RequestsTo(m) == {i \in 1..Len(requests) : requests[i].model = m}

\* _call was invoked for the model m
Called(m) == \E i \in 1..Len(calls) : calls[i] = m

\* synthesize_java_update has returned
SynthReturned == java_codeblock # NotCalled

\* synthesize_java_update has returned or raised
SynthOver == SynthReturned \/ (pc = "raised" /\ fallbackExc # "none")

\* both calls failed
BothFailed == primaryExc # "none" /\ fallbackExc # "none"

C2_NoFileWritten ==
  BothFailed => pc = "raised" /\ raised = fallbackExc /\ written = {}

\* C2 (amended): when both calls fail the error leaves execute_llm_pipeline
\* and nothing is written from the start of the synthesis on: the files of
\* the run are the copies that setup wrote, and there is no code fragment.
C2_NoFileWrittenBySynthesis ==
  BothFailed =>
    /\ pc = "raised" /\ raised = fallbackExc
    /\ written \subseteq {"temp_key", "temp_helper"}
    /\ fs["javaCode"] = NoFile
    /\ java_codeblock = NotCalled

\* C2 witness: both models answered without usable code, the run ended with
\* the error, and the copies of setup are on storage
C2_Witness ==
  /\ primaryExc = "RuntimeError" /\ fallbackExc = "RuntimeError"
  /\ pc = "raised" /\ raised = "RuntimeError"
  /\ written = {"temp_key", "temp_helper"}
  /\ fs["temp_key"] # NoFile

\* the body is a structured object whose code field is missing, null, empty
\* or blank
EmptyCodeObject(c) ==
  /\ JsonLoads(c).kind = "dict"
  /\ \/ JsonLoads(c).key # <<"java">>
     \/ ~JsonLoads(c).isstr
     \/ Strip(JsonLoads(c).str) = <<>>

\* C3 (as claimed): a response that is a structured object with empty code
\* makes the call raise; what synthesize returns is never taken from such a
\* response, and it is non-empty code without a wrapper.
C3_EmptyCodeRaises ==
  SynthReturned =>
    /\ ~EmptyCodeObject(lastContent)
    /\ java_codeblock # <<>>
    /\ JsonLoads(java_codeblock).kind # "dict"
    /\ FencedInterior(java_codeblock) = NoMatch

\* the verification copy was written: splicing is complete
SpliceComplete == fs["verify_key"] # NoFile

\* C14 (as claimed): execute_llm_pipeline returns true exactly when the
\* verifier returned status 0; a non-zero status, and equally a verifier
\* that cannot be invoked (process failure, missing executable), ends the run
\* with the outcome false, and no exception leaves execute_llm_pipeline once
\* the verifier stage is reached.
C14_VerifierFailureIsOutcomeFalse ==
  /\ result # <<>> => rc # <<>> /\ result = <<rc = <<0>>>>
  /\ SpliceComplete => pc # "raised"

\* C15 (as claimed): the script handed to the verifier is the sanitized
\* working copy with the synthesized code in place of the marker and nothing
\* else added, removed or changed.
C15_PatchedIsSanitizedPlusCode ==
  (SpliceComplete /\ HasMarker(fs["temp_key"])) =>
    /\ fs["temp_key"] = sanitize_key_file(fs["statement"])
    /\ \E i \in 1..Len(fs["temp_key"]) :
         /\ fs["temp_key"][i] = SYNTHESIS_HOLE
         /\ fs["verify_key"] = SubSeq(fs["temp_key"], 1, i - 1) \o normalize_code(java_codeblock)
                                 \o SubSeq(fs["temp_key"], i + 1, Len(fs["temp_key"]))

\* the states of a run in their order: start, setup, extracted, variables
\* resolved, synthesizing, synthesized, spliced, verified, done
StageNo(p) ==
  CASE p = "start" -> 0
    [] p = "setup" -> 1
    [] p = "extract" -> 2
    [] p = "read_vars" -> 3
    [] p \in {"primary", "fallback"} -> 4
    [] p \in {"end_synth", "persisted"} -> 5
    [] p = "splice" -> 6
    [] p = "verify" -> 7
    [] p = "done" -> 8

\* one timestamp for the start and one for every transition made since
TimestampPerTransition ==
  pc \notin {"start", "raised"} => Len(timestamps) = 1 + StageNo(pc)

\* a step of a run: it stays in its state, enters the next one or raises;
\* after raising and after done there is no step; the files written stay;
\* the verifier is invoked only from the state spliced
StageStep ==
  /\ pc \notin {"raised", "done"}
  /\ pc' = "raised" \/ StageNo(pc') \in {StageNo(pc), StageNo(pc) + 1}
  /\ written \subseteq written'
  /\ \A f \in FileNames : fs[f] # NoFile => fs'[f] # NoFile
  /\ (rc' # rc \/ raised' = "OSError") => (pc = "splice" /\ SpliceComplete)

\* C17 (as claimed): a run passes through its states strictly in order, each
\* transition records exactly one timestamp, a stage that raises ends the run
\* there with no later stage executed (no verifier without a completed
\* splice), and the files already written are left in place.
C17_StagesInOrder == [](TimestampPerTransition) /\ [][StageStep]_vars

\* C18 (as claimed): the timing record holds one offset per stage label, the
\* first offset 0, and one delta per pair of consecutive offsets, the
\* difference of the two.
C18_TimingRecordConsistent ==
  timefile # NoTimefile =>
    /\ Len(timefile.times) = Len(timefile.labels)
    /\ timefile.times[1] = 0
    /\ Len(timefile.diffs) = Len(timefile.times) - 1
    /\ \A i \in 1..Len(timefile.diffs) :
         timefile.diffs[i] = timefile.times[i + 1] - timefile.times[i]

====
